---- MODULE Spec2Model ----
(***************************************************************************)
(* Model of portable_fdsnws_dataselect/miniseed.py: the range resolver     *)
(* (MiniseedDataExtractor.handle_trimming), the extraction engine          *)
(* (MiniseedDataExtractor.extract_data, a generator) and the record-aware  *)
(* segment (MSRIDataSegment.write).                                        *)
(*                                                                         *)
(* Times are integer ticks, byte offsets are integers.  Text fields of an  *)
(* index row (time stamps, the "time=>offset" pairs of the time index) are *)
(* sequences of one-character strings and are parsed as the code parses    *)
(* them.                                                                   *)
(***************************************************************************)
EXTENDS Integers, Sequences, FiniteSets, TLC

\* ---------------------------------------------------------------- bounds
MaxTime == 4
MaxOff == 3
MaxEntries == 2
MaxRows == 2
MaxLimit == 3
MaxRecLen == 2
MaxRecords == 2

\* ------------------------------------------------------- text conversions
Digits == <<"0", "1", "2", "3", "4", "5", "6", "7", "8", "9">>

DigitVal(c) ==
    CASE c = "0" -> 0 [] c = "1" -> 1 [] c = "2" -> 2 [] c = "3" -> 3 [] c = "4" -> 4
      [] c = "5" -> 5 [] c = "6" -> 6 [] c = "7" -> 7 [] c = "8" -> 8 [] c = "9" -> 9

RECURSIVE ParseNum(_)
\* float(x) / int(x) / UTCDateTime(x).timestamp of a decimal text
ParseNum(s) ==
    IF s = <<>> THEN 0
    ELSE 10 * ParseNum(SubSeq(s, 1, Len(s) - 1)) + DigitVal(s[Len(s)])

RECURSIVE FormatNum(_)
\* str(x) of a number
FormatNum(n) ==
    IF n < 10 THEN <<Digits[n + 1]>>
    ELSE Append(FormatNum(n \div 10), Digits[(n % 10) + 1])

LATEST == <<"l", "a", "t", "e", "s", "t">>

UTCDateTime(s) == ParseNum(s)

\* ------------------------------------------------------------ index rows
RECURSIVE SortedSeq(_)
SortedSeq(S) ==
    IF S = {} THEN <<>>
    ELSE LET m == CHOOSE x \in S : \A y \in S : x <= y
         IN <<m>> \o SortedSeq(S \ {m})

KSubsets(S, k) == {X \in SUBSET S : Cardinality(X) = k}

\* the "time=>offset" pairs over the times TS and offsets OS, k of them,
\* times and offsets strictly increasing
Pairs(TS, OS, k) ==
    {[i \in 1..k |-> <<FormatNum(SortedSeq(T)[i]), FormatNum(SortedSeq(O)[i])>>] :
        T \in KSubsets(TS, k), O \in KSubsets(OS, k)}

\* the time indexes of a block [ts, te] stored at [bs, be]: either real pairs
\* only, or real pairs followed by the "latest" entry
TimeIndexes(ts, te, bs, be) ==
    UNION {Pairs(ts..te, bs..be, k) : k \in 1..MaxEntries}
    \cup UNION {{p \o <<<<LATEST, <<"1">>>>>> : p \in Pairs(ts..(te - 1), bs..(be - 1), k)} :
                  k \in 0..(MaxEntries - 1)}

FileNames == {<<"d", "a">>, <<"d", "b">>}

\* index rows (fields named after the columns the code reads by position):
\* row[5] starttime, row[6] endtime, row[7] samplerate, row[8] filename,
\* row[9] byteoffset, row[10] bytes, row[12] timeindex,
\* row[19] requeststart, row[20] requestend
Row(ts, te, sr, fn, bs, be, tix, rs, re) ==
    [starttime |-> FormatNum(ts), endtime |-> FormatNum(te),
     samplerate |-> sr, filename |-> fn,
     byteoffset |-> bs, bytes |-> be - bs, timeindex |-> tix,
     requeststart |-> FormatNum(rs), requestend |-> FormatNum(re)]

VARIABLES
    t_row,          \* handle_trimming: the row argument
    t_info,         \* handle_trimming: the returned pair of endpoints, <<>> before the call
    t_pc,
    request_limit,  \* self.request_limit
    dp_replace,     \* <<>> (None) or <<pattern, replacement>>
    existing,       \* the data files on disk
    reclen,         \* record length of the data files
    index_rows,     \* extract_data: the index_rows argument
    pc,             \* extract_data: position in the generator
    row_i,          \* number of index rows taken by the loop of line 209
    total_bytes,
    request_rows,
    cause,          \* the exception raised inside the try block, "" if none
    error,          \* the exception that reaches the caller, "" if none
    req_i,          \* number of request rows taken by the loop of line 238
    msri_offset,    \* offset of the next record of the open MSR_iterator
    yielded,        \* the segments yielded so far
    w_seg,          \* MSRIDataSegment.write: the segment and its record
    w_path,         \* MSRIDataSegment.write: "" before the call, then the branch taken
    w_out           \* MSRIDataSegment.write: number of bytes written to wfile

trimvars == <<t_row, t_info, t_pc>>
envvars == <<request_limit, dp_replace, existing, reclen, index_rows>>
genvars == <<pc, row_i, total_bytes, request_rows, cause, error, req_i, msri_offset, yielded>>
writevars == <<w_seg, w_path, w_out>>
vars == <<trimvars, envvars, genvars, writevars>>

\* ------------------------------------------------ bisect.bisect_right
RECURSIVE bisect_loop(_, _, _, _)
bisect_loop(a, x, lo, hi) ==
    IF lo < hi
    THEN LET mid == (lo + hi) \div 2
         IN IF x < a[mid + 1] THEN bisect_loop(a, x, lo, mid)
            ELSE bisect_loop(a, x, mid + 1, hi)
    ELSE lo

RECURSIVE bisect_left(_, _, _, _)
bisect_left(a, x, lo, hi) ==
    IF lo < hi
    THEN LET mid == (lo + hi) \div 2
         IN IF a[mid + 1] < x THEN bisect_left(a, x, mid + 1, hi)
            ELSE bisect_left(a, x, lo, mid)
    ELSE lo

bisect_right_as_left(a, x) == bisect_left(a, x, 0, Len(a))

bisect_right(a, x) == bisect_loop(a, x, 0, Len(a))

\* Python list indexing, 0-based, negative indexes count from the end
PyIndex(s, i) == IF i < 0 THEN s[Len(s) + i + 1] ELSE s[i + 1]

\* the test of line 174: only a subset of the block is wanted
NeedsSubsetStrict(stime, etime, row_stime, row_etime) ==
    stime >= row_stime \/ etime <= row_etime

NeedsSubset(stime, etime, row_stime, row_etime) ==
    stime > row_stime \/ etime < row_etime

\* lines 180-181: no entry at or before stime, use the first one
ClampStart(s_raw) == IF s_raw < 0 THEN 0 ELSE s_raw

\* lines 184-185: no entry after etime, use the last one
ClampEndFirst(e_raw, n) == IF e_raw >= n THEN 0 ELSE e_raw

ClampEnd(e_raw, n) == IF e_raw >= n THEN -1 ELSE e_raw

\* ------------------------------------------------------ handle_trimming
handle_trimming(stime_arg, etime_arg, row) ==
    LET stime == stime_arg
        etime == UTCDateTime(row.requestend)
        row_stime == UTCDateTime(row.starttime)
        row_etime == UTCDateTime(row.endtime)
        block_start == row.byteoffset
        block_end == block_start + row.bytes
    IN IF NeedsSubset(stime, etime, row_stime, row_etime)
       THEN LET tix0 == row.timeindex
                n == Len(tix0)
                \* tix[-1] = [str(row_etime.timestamp), block_end]
                tix == IF tix0[n][1] = LATEST
                       THEN [tix0 EXCEPT ![n] = <<FormatNum(row_etime), tix0[n][2]>>]
                       ELSE tix0
                to_x == [i \in 1..n |-> ParseNum(tix[i][1])]
                s_raw == bisect_right(to_x, stime) - 1
                s_index == ClampStart(s_raw)
                e_raw == bisect_right(to_x, etime)
                \* int(tix[i][1]): the replaced last entry holds a number, the
                \* others the text after "=>"
                IntOffset(e) == IF e[1] = LATEST THEN block_end ELSE ParseNum(e[2])
                off_start == IntOffset(PyIndex(tix0, s_index))
                e_index == ClampEnd(e_raw, n)
                off_end == IntOffset(PyIndex(tix0, e_index))
            IN << <<PyIndex(to_x, s_index), off_start, stime > row_stime>>,
                  <<PyIndex(to_x, e_index), off_end, etime < row_etime>> >>
       ELSE << <<row_stime, block_start, FALSE>>, <<row_etime, block_end, FALSE>> >>

\* ----------------------------------------- specification of the resolver
InitTrim ==
    /\ \E ts \in 0..MaxTime, te \in 0..MaxTime, bs \in 0..MaxOff, be \in 0..MaxOff,
          rs \in 0..MaxTime, re \in 0..MaxTime :
         /\ ts < te /\ bs <= be /\ rs <= re
         /\ \E tix \in TimeIndexes(ts, te, bs, be) :
              t_row = Row(ts, te, 1, <<"d", "a">>, bs, be, tix, rs, re)
    /\ t_info = <<>>
    /\ t_pc = "call"
    /\ request_limit = 0 /\ dp_replace = <<>> /\ existing = {} /\ reclen = 1
    /\ index_rows = <<>>
    /\ pc = "idle" /\ row_i = 0 /\ total_bytes = 0 /\ request_rows = <<>>
    /\ cause = "" /\ error = "" /\ req_i = 0 /\ msri_offset = 0 /\ yielded = <<>>
    /\ w_seg = <<>> /\ w_path = "" /\ w_out = 0

\* the call made at miniseed.py line 213
CallTrim ==
    /\ t_pc = "call"
    /\ t_info' = handle_trimming(UTCDateTime(t_row.requeststart),
                                 UTCDateTime(t_row.requestend), t_row)
    /\ t_pc' = "returned"
    /\ UNCHANGED <<t_row, envvars, genvars, writevars>>

NextTrim == CallTrim

SpecTrim == InitTrim /\ [][NextTrim]_vars

\* ------------------------------------------------- the extraction engine
\* the rows of one request over data files of len-byte records: block j
\* (j = 1, 2, ...) holds MaxRecords records, record k of it covering the times
\* [(j-1)*MaxRecords + k, +1) at offset ((j-1)*MaxRecords + k) * len; its
\* time index has one entry per record and a final "latest"
StdIndex(j, len) ==
    [e \in 1..(MaxRecords + 1) |->
        IF e <= MaxRecords
        THEN <<FormatNum((j - 1) * MaxRecords + e - 1),
               FormatNum(((j - 1) * MaxRecords + e - 1) * len)>>
        ELSE <<LATEST, <<"1">>>>]

BlockRow(j, len, fn, rs, re) ==
    Row((j - 1) * MaxRecords, j * MaxRecords, 1, fn,
        (j - 1) * MaxRecords * len, j * MaxRecords * len, StdIndex(j, len), rs, re)

LastTime == MaxRows * MaxRecords

\* self.dp_replace_re.sub(self.dp_replace_sub, file_name): every match of
\* the (one character) pattern is replaced
re_sub(dp, file_name) ==
    [k \in 1..Len(file_name) |-> IF file_name[k] = dp[1] THEN dp[2] ELSE file_name[k]]

\* lines 217-218
ResolvePath(dp, file_name) == IF dp # <<>> THEN re_sub(dp, file_name) ELSE file_name

\* os.path.exists, line 219
PathNeverMissing(file_name) == FALSE

PathMissing(file_name) == file_name \notin existing

\* line 215
LimitExceeded(total, limit) == total > limit

\* line 234
NoDataOnNegative(total) == total < 0

NoData(total) == total = 0

\* line 248
BeyondEndStrict(offset, end) == offset > end

BeyondEnd(offset, end) == offset >= end

\* line 254
PassingEnd(offset, len, end) == (offset + len) >= end

Request(row, file_name, trim_info) ==
    [file_name |-> file_name,
     start_time |-> UTCDateTime(row.requeststart),
     end_time |-> UTCDateTime(row.requestend),
     trim_info |-> trim_info,
     section_bytes |-> row.bytes,
     sample_rate |-> row.samplerate]

FileDataSegment(filename, start_byte, num_bytes) ==
    [kind |-> "file", filename |-> filename, start_byte |-> start_byte,
     num_bytes |-> num_bytes]

MSRIDataSegment(offset, len, sample_rate, start_time, end_time) ==
    [kind |-> "msri", offset |-> offset, reclen |-> len, sample_rate |-> sample_rate,
     start_time |-> start_time, end_time |-> end_time]

get_num_bytes(seg) == IF seg.kind = "file" THEN seg.num_bytes ELSE seg.reclen

\* size of every data file: the records of every block and one more
FileLen == reclen * (LastTime + 1)

\* MSR_iterator: a record of reclen bytes starts at offset when the file
\* holds that many bytes from there
HasRecord(offset) == offset + reclen <= FileLen

\* the budget is drawn in whole records, 0 is the default (no budget)
Init ==
    /\ reclen \in 1..MaxRecLen
    /\ request_limit \in {k * reclen : k \in 0..MaxLimit}
    /\ dp_replace \in {<<>>, <<"a", "b">>}
    /\ existing = {<<"d", "b">>}
    /\ \E n \in 0..MaxRows, rs \in 0..LastTime, re \in 0..LastTime :
         /\ rs <= re
         /\ \E fns \in [1..n -> FileNames] :
              index_rows = [j \in 1..n |-> BlockRow(j, reclen, fns[j], rs, re)]
    /\ pc = "prescan" /\ row_i = 0 /\ total_bytes = 0 /\ request_rows = <<>>
    /\ cause = "" /\ error = "" /\ req_i = 0 /\ msri_offset = 0 /\ yielded = <<>>
    /\ t_row = <<>> /\ t_info = <<>> /\ t_pc = "idle"
    /\ w_seg = <<>> /\ w_path = "" /\ w_out = 0

\* one iteration of the loop of lines 209-227, with the handler of lines
\* 228-231 when it raises
ValidateRow ==
    /\ pc = "prescan"
    /\ request_limit > 0
    /\ row_i < Len(index_rows)
    /\ LET row == index_rows[row_i + 1]
           start_time == UTCDateTime(row.requeststart)
           end_time == UTCDateTime(row.requestend)
           trim_info == handle_trimming(start_time, end_time, row)
           total == total_bytes + (trim_info[2][2] - trim_info[1][2])
           file_name == ResolvePath(dp_replace, row.filename)
       IN /\ total_bytes' = total
          /\ IF LimitExceeded(total, request_limit)
             THEN /\ cause' = "RequestLimitExceededError"
                  /\ error' = "Exception"
                  /\ pc' = "raised"
                  /\ UNCHANGED <<row_i, request_rows>>
             ELSE IF PathMissing(file_name)
             THEN /\ cause' = "Exception"
                  /\ error' = "Exception"
                  /\ pc' = "raised"
                  /\ UNCHANGED <<row_i, request_rows>>
             ELSE /\ request_rows' = Append(request_rows, Request(row, file_name, trim_info))
                  /\ row_i' = row_i + 1
                  /\ UNCHANGED <<cause, error, pc>>
    /\ UNCHANGED <<trimvars, writevars, envvars, req_i, msri_offset, yielded>>

\* lines 207 and 233-235: the pre-scan is over or was skipped
CheckNoData ==
    /\ pc = "prescan"
    /\ ~(request_limit > 0) \/ row_i = Len(index_rows)
    /\ IF NoData(total_bytes)
       THEN /\ error' = "NoDataError"
            /\ pc' = "raised"
       ELSE /\ pc' = "stream"
            /\ UNCHANGED error
    /\ UNCHANGED <<trimvars, writevars, envvars, row_i, total_bytes, request_rows, cause, req_i,
                   msri_offset, yielded>>

\* lines 238-244 and 257-259: the next request row, either yielded whole or
\* handed to a MSR_iterator
StreamRow ==
    /\ pc = "stream"
    /\ req_i < Len(request_rows)
    /\ LET row == request_rows[req_i + 1]
       IN IF row.trim_info[1][3] \/ row.trim_info[2][3]
          THEN /\ msri_offset' = row.trim_info[1][2]
               /\ pc' = "scan"
               /\ UNCHANGED <<req_i, yielded>>
          ELSE /\ yielded' = Append(yielded,
                      FileDataSegment(row.file_name, row.trim_info[1][2], row.section_bytes))
               /\ req_i' = req_i + 1
               /\ UNCHANGED <<pc, msri_offset>>
    /\ UNCHANGED <<trimvars, writevars, envvars, row_i, total_bytes, request_rows, cause, error>>

\* lines 244-255: one iteration over the records of the section
ScanRecord ==
    /\ pc = "scan"
    /\ LET row == request_rows[req_i + 1]
           offset == msri_offset
       IN IF ~HasRecord(offset) \/ BeyondEnd(offset, row.trim_info[2][2])
          THEN /\ req_i' = req_i + 1
               /\ pc' = "stream"
               /\ UNCHANGED <<msri_offset, yielded>>
          ELSE /\ yielded' = Append(yielded,
                      MSRIDataSegment(offset, reclen, row.sample_rate,
                                      row.start_time, row.end_time))
               /\ IF PassingEnd(offset, reclen, row.trim_info[2][2])
                  THEN /\ req_i' = req_i + 1
                       /\ pc' = "stream"
                       /\ UNCHANGED msri_offset
                  ELSE /\ msri_offset' = offset + reclen
                       /\ UNCHANGED <<req_i, pc>>
    /\ UNCHANGED <<trimvars, writevars, envvars, row_i, total_bytes, request_rows, cause, error>>

\* the loop of line 238 is over: the generator returns
Finish ==
    /\ pc = "stream"
    /\ req_i = Len(request_rows)
    /\ pc' = "done"
    /\ UNCHANGED <<trimvars, writevars, envvars, row_i, total_bytes, request_rows, cause, error, req_i,
                   msri_offset, yielded>>

Next == ValidateRow \/ CheckNoData \/ StreamRow \/ ScanRecord \/ Finish

Spec == Init /\ [][Next]_vars

\* ------------------------------------------------ MSRIDataSegment.write
\* line 88
IntersectsEither(msrstart, msrend, sepoch, eepoch) ==
    msrstart < eepoch \/ msrend > sepoch

Intersects(msrstart, msrend, sepoch, eepoch) ==
    msrstart < eepoch /\ msrend > sepoch

\* line 91
NeedsTrim(sample_rate, msrstart, msrend, start_time, end_time) ==
    sample_rate > 0 /\ (msrstart < start_time \/ msrend > end_time)

InitWrite ==
    /\ \E ms \in 0..MaxTime, me \in 0..MaxTime, st \in 0..MaxTime, et \in 0..MaxTime,
          sr \in {0, 1}, len \in 1..MaxRecLen :
         /\ ms <= me /\ st <= et
         /\ w_seg = [msrstart |-> ms, msrend |-> me, reclen |-> len,
                     sample_rate |-> sr, start_time |-> st, end_time |-> et]
    /\ w_path = "" /\ w_out = 0
    /\ request_limit = 0 /\ dp_replace = <<>> /\ existing = {} /\ reclen = 1
    /\ index_rows = <<>>
    /\ pc = "idle" /\ row_i = 0 /\ total_bytes = 0 /\ request_rows = <<>>
    /\ cause = "" /\ error = "" /\ req_i = 0 /\ msri_offset = 0 /\ yielded = <<>>
    /\ t_row = <<>> /\ t_info = <<>> /\ t_pc = "idle"

\* lines 79-103; the trimmed trace is re-encoded by the codec into some
\* number of bytes
Write ==
    /\ w_path = ""
    /\ LET msrstart == w_seg.msrstart
           msrend == w_seg.msrend
           sepoch == w_seg.start_time
           eepoch == w_seg.end_time
       IN IF Intersects(msrstart, msrend, sepoch, eepoch)
          THEN IF NeedsTrim(w_seg.sample_rate, msrstart, msrend,
                            w_seg.start_time, w_seg.end_time)
               THEN /\ w_path' = "trim"
                    /\ w_out' \in 0..w_seg.reclen
               ELSE /\ w_path' = "raw"
                    /\ w_out' = w_seg.reclen
          ELSE /\ w_path' = "none"
               /\ w_out' = 0
    /\ UNCHANGED <<w_seg, trimvars, envvars, genvars>>

NextWrite == Write

SpecWrite == InitWrite /\ [][NextWrite]_vars

\* ------------------------------------------------- claims on the resolver
\* numeric view of the row handed to handle_trimming
ReqStart == ParseNum(t_row.requeststart)
ReqEnd == ParseNum(t_row.requestend)
BlockStartTime == ParseNum(t_row.starttime)
BlockEndTime == ParseNum(t_row.endtime)
BlockStart == t_row.byteoffset
BlockEnd == t_row.byteoffset + t_row.bytes

HasSentinel(row) == row.timeindex[Len(row.timeindex)][1] = LATEST

\* the time index after the sentinel is resolved, as <<time, offset>> numbers
Entries(row) ==
    [i \in 1..Len(row.timeindex) |->
        IF row.timeindex[i][1] = LATEST
        THEN <<ParseNum(row.endtime), row.byteoffset + row.bytes>>
        ELSE <<ParseNum(row.timeindex[i][1]), ParseNum(row.timeindex[i][2])>>]

SetMax(S) == CHOOSE x \in S : \A y \in S : y <= x
SetMin(S) == CHOOSE x \in S : \A y \in S : x <= y

\* rightmost entry with time <= x, the first entry if none
AtOrBefore(row, x) ==
    LET S == {i \in 1..Len(row.timeindex) : Entries(row)[i][1] <= x}
    IN IF S = {} THEN 1 ELSE SetMax(S)

\* leftmost entry with time > x, the last entry if none
StrictlyAfter(row, x) ==
    LET S == {i \in 1..Len(row.timeindex) : Entries(row)[i][1] > x}
    IN IF S = {} THEN Len(row.timeindex) ELSE SetMin(S)

ExampleRow ==
    Row(100, 110, 1, <<"d", "a">>, 1000, 1500,
        << <<FormatNum(100), FormatNum(1000)>>, <<FormatNum(105), FormatNum(1200)>>,
           <<LATEST, <<"1">>>> >>, 102, 108)

\* C5: for a window strictly inside the block the start offset is that of the
\* rightmost index entry at or before the requested start (entry 0 if none),
\* the end offset that of the leftmost entry strictly after the requested end
\* (the last entry if none); each flag is true exactly when its bound is
\* strictly interior; the documented example resolves to (100,1000,true) and
\* (110,1500,true).
C5_InteriorWindow ==
    /\ t_pc = "returned" =>
         /\ (ReqStart > BlockStartTime /\ ReqEnd < BlockEndTime) =>
              /\ t_info[1][2] = Entries(t_row)[AtOrBefore(t_row, ReqStart)][2]
              /\ t_info[2][2] = Entries(t_row)[StrictlyAfter(t_row, ReqEnd)][2]
         /\ t_info[1][3] = (ReqStart > BlockStartTime)
         /\ t_info[2][3] = (ReqEnd < BlockEndTime)
    /\ handle_trimming(102, 108, ExampleRow)
         = << <<100, 1000, TRUE>>, <<110, 1500, TRUE>> >>

\* a window strictly inside the block, with index entries on both sides of
\* each bound, has been resolved
C5_Witness ==
    /\ t_pc = "returned"
    /\ ReqStart > BlockStartTime /\ ReqEnd < BlockEndTime
    /\ Len(t_row.timeindex) >= 2
    /\ AtOrBefore(t_row, ReqStart) < StrictlyAfter(t_row, ReqEnd)
    /\ t_info[1][2] < t_info[2][2]

\* C6: when the requested window covers the whole block the endpoints are
\* the block's own (start time, start offset, false) and (end time, start
\* offset + length, false), whatever the time index holds.
C6_FullCover ==
    (t_pc = "returned" /\ ReqStart <= BlockStartTime /\ ReqEnd >= BlockEndTime) =>
        t_info = << <<BlockStartTime, BlockStart, FALSE>>,
                    <<BlockEndTime, BlockEnd, FALSE>> >>

\* a covering window has been resolved for a row whose time index starts
\* after the block start and ends before the block end
C6_Witness ==
    /\ t_pc = "returned"
    /\ ReqStart <= BlockStartTime /\ ReqEnd >= BlockEndTime
    /\ Entries(t_row)[1][2] > BlockStart
    /\ Entries(t_row)[Len(t_row.timeindex)][2] < BlockEnd

\* C7: for a row meeting the time-index invariants and a window with
\* start <= end, the resolved start offset is at most the resolved end offset.
C7_StartLeEnd ==
    t_pc = "returned" => t_info[1][2] <= t_info[2][2]

\* a window lying entirely after every indexed time has been resolved with
\* both indexes clamped to the last entry
C7_Witness ==
    /\ t_pc = "returned"
    /\ Len(t_row.timeindex) >= 2
    /\ \A i \in 1..Len(t_row.timeindex) : Entries(t_row)[i][1] < ReqStart
    /\ t_info[1][2] = t_info[2][2]

\* C10: when only the start is interior (start > block start time, end >=
\* block end time) the resolved end offset is block_start_offset +
\* block_length, for every valid time index, with or without the sentinel.
C10_EndIsBlockEnd ==
    (t_pc = "returned" /\ ReqStart > BlockStartTime /\ ReqEnd >= BlockEndTime) =>
        t_info[2][2] = BlockEnd

\* -------------------------------------------------- claims on the engine
Span(row) ==
    LET ti == handle_trimming(UTCDateTime(row.requeststart),
                              UTCDateTime(row.requestend), row)
    IN ti[2][2] - ti[1][2]

RECURSIVE PrefixSpan(_, _)
\* the resolved byte span of the first k rows
PrefixSpan(rows, k) == IF k = 0 THEN 0 ELSE PrefixSpan(rows, k - 1) + Span(rows[k])

FileOnDisk(row) == ResolvePath(dp_replace, row.filename) \in existing

Terminated == pc \in {"raised", "done"}

RECURSIVE SumBytes(_)
SumBytes(segs) ==
    IF segs = <<>> THEN 0
    ELSE get_num_bytes(segs[1]) + SumBytes(Tail(segs))

\* C1: with a positive budget, when the running sum of resolved spans
\* exceeds it (and no earlier row failed on its file) the request fails with
\* RequestLimitExceededError reaching the caller, and no segment is yielded.
C1_LimitErrorReachesCaller ==
    \A k \in 1..Len(index_rows) :
        (/\ request_limit > 0
         /\ PrefixSpan(index_rows, k) > request_limit
         /\ \A j \in 1..(k - 1) : FileOnDisk(index_rows[j])) =>
            /\ yielded = <<>>
            /\ Terminated => error = "RequestLimitExceededError"

\* C2: a segment is yielded only after every index row was resolved, found
\* within the budget and found on disk; a failed validation, also of the last
\* row, leaves zero segments.
C2_ValidateBeforeYield ==
    /\ yielded # <<>> =>
         /\ row_i = Len(index_rows)
         /\ Len(request_rows) = Len(index_rows)
         /\ \A k \in 1..Len(index_rows) :
              /\ PrefixSpan(index_rows, k) <= request_limit
              /\ FileOnDisk(index_rows[k])
    /\ (cause # "" \/ error # "") => yielded = <<>>
    /\ (\E k \in 1..Len(index_rows) :
            request_limit > 0 /\ ~FileOnDisk(index_rows[k])) => yielded = <<>>

\* the last row of a request failed validation after an earlier row passed
C2_Witness ==
    /\ pc = "raised"
    /\ cause = "Exception"
    /\ Len(index_rows) >= 2
    /\ row_i = Len(index_rows) - 1
    /\ Len(request_rows) = row_i
    /\ Span(index_rows[1]) > 0
    /\ yielded = <<>>

\* C3: with no budget configured (request_limit = 0) the rows are still
\* resolved and listed, so a request with a nonzero span is not reported as
\* empty and yields segments.
C3_DisabledBudgetStillExtracts ==
    (/\ request_limit = 0
     /\ Terminated
     /\ \A k \in 1..Len(index_rows) : FileOnDisk(index_rows[k])
     /\ PrefixSpan(index_rows, Len(index_rows)) > 0) =>
        /\ error # "NoDataError"
        /\ total_bytes = PrefixSpan(index_rows, Len(index_rows))
        /\ Len(request_rows) = Len(index_rows)
        /\ yielded # <<>>

\* C4: when the validation pass ended without a failure and every row
\* resolved to a zero-length range (or there is no row), the request fails
\* with NoDataError and yields nothing.
C4_ZeroBytesIsNoData ==
    (/\ pc # "prescan"
     /\ cause = ""
     /\ \A k \in 1..Len(index_rows) : Span(index_rows[k]) = 0) =>
        /\ error = "NoDataError"
        /\ pc = "raised"
        /\ yielded = <<>>

\* a budgeted request of zero-length rows was validated in full and failed
\* with NoDataError
C4_Witness ==
    /\ pc = "raised"
    /\ error = "NoDataError"
    /\ request_limit > 0
    /\ Len(index_rows) >= 1
    /\ row_i = Len(index_rows)
    /\ Len(request_rows) = Len(index_rows)
    /\ \E k \in 1..Len(index_rows) : index_rows[k].bytes > 0

\* block bounds and time-index offsets fall on record boundaries
Aligned(row) ==
    /\ row.byteoffset % reclen = 0
    /\ (row.byteoffset + row.bytes) % reclen = 0
    /\ \A k \in 1..Len(row.timeindex) : Entries(row)[k][2] % reclen = 0

\* C8: for a request validated under a positive budget, with contiguous
\* records and record-aligned index offsets, the bytes of the yielded segments
\* add up to at most total_bytes, which is at most the budget.
C8_YieldedWithinBudget ==
    (/\ request_limit > 0
     /\ pc \in {"stream", "scan", "done"}
     /\ \A k \in 1..Len(index_rows) : Aligned(index_rows[k])) =>
        /\ SumBytes(yielded) <= total_bytes
        /\ total_bytes <= request_limit

\* a budgeted request with a refined row and a raw row has been streamed to
\* the end, records of more than one byte included
C8_Witness ==
    /\ pc = "done"
    /\ request_limit > 0
    /\ reclen > 1
    /\ \A k \in 1..Len(index_rows) : Aligned(index_rows[k])
    /\ \E k \in 1..Len(yielded) : yielded[k].kind = "msri"
    /\ \E k \in 1..Len(yielded) : yielded[k].kind = "file"
    /\ SumBytes(yielded) = total_bytes

\* C9: write() writes zero bytes, taking neither the raw-copy nor the trim
\* path, whenever the record does not intersect the requested window, i.e.
\* NOT (record_start < requested_end AND record_end > requested_start).
C9_NoOverlapWritesNothing ==
    (/\ w_path # ""
     /\ ~(w_seg.msrstart < w_seg.end_time /\ w_seg.msrend > w_seg.start_time)) =>
        /\ w_out = 0
        /\ w_path = "none"

\* a record that ends exactly at the requested start has been written
C9_Witness ==
    /\ w_path = "none"
    /\ w_seg.msrend = w_seg.start_time
    /\ w_seg.msrstart < w_seg.end_time
    /\ w_out = 0
====
